---------------------------- MODULE Spec2Model ----------------------------
(***************************************************************************)
(* Device Manager Web: the device list page (js/devices.js) with the API   *)
(* wrapper (api.js) and the session helpers (js/auth.js) it calls.         *)
(*                                                                         *)
(* The page is single-threaded and event-driven: every action below is one *)
(* event-handler turn, or the continuation of loadDevices() after its      *)
(* await.  A list request that has been issued and not yet answered is an  *)
(* element of inflight; the server may answer the outstanding requests in  *)
(* any order.                                                              *)
(***************************************************************************)
EXTENDS Integers, Sequences, FiniteSets, TLC

(***************************************************************************)
(* Bounds of the model.                                                    *)
(***************************************************************************)
\* largest totalPages a list response reports
MaxPages == 2
\* most list requests outstanding at the same time
MaxInflight == 2
\* number of clock steps the 350 ms debounce window is divided into
WindowTicks == 2
\* largest totalPages buildPageRange is called with
MaxTotal == 12

(***************************************************************************)
(* Program constants and input domains.                                    *)
(***************************************************************************)
\* state.size
PageSize == 20

\* sortable columns of the table header (two of the six)
Cols == {"name", "type"}

\* values of the status-filter select ("" is 'All Statuses')
StatusOptions == {"", "ACTIVE"}

\* values of the type-filter select ("" is 'All Types')
TypeOptions == {"", "SERVER"}

\* texts typed into the search input, as sequences of characters
Texts == { <<>>, <<"a">>, <<"a", "b">>, <<" ", "a">> }

\* ids of the devices in the table rows (0 is no device)
DeviceIds == {1, 2}

\* HTTP statuses of the answers to apiFetch calls other than list requests
\* (0: fetch() itself rejected, the request never got an answer)
Statuses == {0, 200, 204, 401, 500}

\* the texts typed where the search field is one control among the others
FewTexts == { <<>>, <<" ", "a">> }

(***************************************************************************)
(* Pure helpers.                                                           *)
(***************************************************************************)
IsSpace(c) == c = " "

RECURSIVE TrimStart(_)
TrimStart(s) ==
    IF s = <<>> THEN <<>>
    ELSE IF IsSpace(Head(s)) THEN TrimStart(Tail(s)) ELSE s

RECURSIVE TrimEnd(_)
TrimEnd(s) ==
    IF s = <<>> THEN <<>>
    ELSE IF IsSpace(s[Len(s)]) THEN TrimEnd(SubSeq(s, 1, Len(s) - 1)) ELSE s

\* String.prototype.trim
Trim(s) == TrimEnd(TrimStart(s))

Max(a, b) == IF a >= b THEN a ELSE b

Min(a, b) == IF a <= b THEN a ELSE b

SetMin(S) == CHOOSE x \in S : \A y \in S : x <= y

\* [...range].sort((a, b) => a - b)
RECURSIVE SortedSeq(_)
SortedSeq(S) ==
    IF S = {} THEN <<>>
    ELSE <<SetMin(S)>> \o SortedSeq(S \ {SetMin(S)})

PageLink(p) == [page |-> p]

EllipsisMark == [ellipsis |-> TRUE]

IsPageLink(x) == "page" \in DOMAIN x

RECURSIVE WithEllipses(_, _)
WithEllipses(sorted, i) ==
    IF i > Len(sorted) THEN <<>>
    ELSE (IF i > 1 /\ sorted[i] - sorted[i - 1] > 1 THEN <<EllipsisMark>> ELSE <<>>)
         \o <<PageLink(sorted[i])>> \o WithEllipses(sorted, i + 1)

\* faulty variant: every range is built by the window rule
BuildPageRangeNoShortList(current, total) ==
    LET range == {0, total - 1, current}
                 \cup (Max(1, current - 2) .. Min(total - 2, current + 2))
    IN  WithEllipses(SortedSeq(range), 1)

\* faulty variant: the window reaches one page to each side
BuildPageRangeNarrowWindow(current, total) ==
    IF total <= 7 THEN [i \in 1..total |-> PageLink(i - 1)]
    ELSE LET range == {0, total - 1, current}
                      \cup (Max(1, current - 1) .. Min(total - 2, current + 1))
         IN  WithEllipses(SortedSeq(range), 1)

\* faulty variant: the window reaches three pages to each side
BuildPageRangeWideWindow(current, total) ==
    IF total <= 7 THEN [i \in 1..total |-> PageLink(i - 1)]
    ELSE LET range == {0, total - 1, current}
                      \cup (Max(1, current - 3) .. Min(total - 2, current + 3))
         IN  WithEllipses(SortedSeq(range), 1)

\* buildPageRange(current, total)
BuildPageRange(current, total) ==
    IF total <= 7 THEN [i \in 1..total |-> PageLink(i - 1)]
    ELSE LET range == {0, total - 1, current}
                      \cup (Max(1, current - 2) .. Min(total - 2, current + 2))
         IN  WithEllipses(SortedSeq(range), 1)


(***************************************************************************)
(* State.  The first group is the page's own state; the second group is    *)
(* history kept for stating properties, which no handler reads.            *)
(***************************************************************************)
VARIABLES
    state,          \* the module-level state object of devices.js
    inflight,       \* list requests issued and not yet answered, oldest first
    display,        \* what #table-content shows and the newest toast
    pager,          \* #pagination-nav as renderPagination() last left it
    inputValue,     \* value of #search-input
    timers,         \* pending setTimeout callbacks of the search listener
    searchDebounce, \* handle stored by the search listener (0 is null)
    modal,          \* the modals carrying the .show class
    authed,         \* the auth token is in sessionStorage
    calls,          \* apiFetch calls other than list requests, not yet answered
    form,           \* #device-form: form-id (0 is '') and where the fields come from
    deleteTargetId, \* deleteTargetId (0 is null)
    disabled,       \* the disabled property of the Save and the Delete button
    busy,           \* the button shows its busy label and its spinner
    shownOf,        \* history: the request whose answer #table-content shows
    lastOp,         \* history: the handler that ran last (arg: goToPage's)
    surplus,        \* history: list requests issued by mutators minus mutations
    deb,            \* history: the current burst of search input events
    sortHist,       \* history: the last sortBy call and the sort before it
    hist,           \* history: logout() calls, delete dialogs, records fetched
    rangeCall,      \* a call of buildPageRange: its arguments and its result
    focus           \* the group of controls the session is bounded to

program == <<state, inflight, display, pager, inputValue, timers, searchDebounce,
             modal, authed>>

\* the state of the dialogs, which no list handler but openCreateModal touches
dialogs == <<calls, form, deleteTargetId, disabled, busy>>

vars == <<program, dialogs, shownOf, lastOp, surplus, deb, sortHist, hist, rangeCall,
          focus>>

\* const state = {...}
InitialState ==
    [page |-> 0, size |-> PageSize, sort |-> "name", direction |-> "asc",
     status |-> "", type |-> "", q |-> <<>>, totalPages |-> 0, totalItems |-> 0]

\* the parameters getDevices() puts on the query string; latest marks the
\* most recently issued request
Request(st) ==
    [page |-> st.page, size |-> st.size, sort |-> <<st.sort, st.direction>>,
     status |-> st.status, type |-> st.type, q |-> st.q, latest |-> TRUE]

Superseded(reqs) == [i \in 1..Len(reqs) |-> [reqs[i] EXCEPT !.latest = FALSE]]

\* faulty variant: the request is sent twice
IssueRequestTwice(reqs, st) ==
    Append(Append(Superseded(reqs), [Request(st) EXCEPT !.latest = FALSE]), Request(st))

\* the synchronous part of loadDevices(): getDevices() -> apiFetch() -> fetch()
IssueRequest(reqs, st) == Append(Superseded(reqs), Request(st))

\* loadDevices() up to its await
LoadDevices(st) ==
    /\ Len(inflight) < MaxInflight
    /\ inflight' = IssueRequest(inflight, st)

RemoveAt(seq, i) == SubSeq(seq, 1, i - 1) \o SubSeq(seq, i + 1, Len(seq))

\* data.f ?? dflt
Field(data, f, dflt) == IF f \in DOMAIN data THEN data[f] ELSE dflt

\* the page a server holding tp pages answers with: totalElements is the
\* least count that fills tp pages, content is empty beyond the last page
PageAnswer(tp, p) ==
    [totalPages |-> tp,
     totalElements |-> IF tp = 0 THEN 0 ELSE (tp - 1) * PageSize + 1,
     content |-> IF p < tp THEN 1 ELSE 0]

\* bodies of successful list responses ({content, totalElements, totalPages});
\* the last one leaves the totals out
Answers(req) ==
    { PageAnswer(tp, req.page) : tp \in 0..MaxPages } \cup { [content |-> 1] }

\* faulty variant: an empty page is rendered as a table without rows
RenderTableNoEmptyState(rows) == "table"

\* renderTable(devices): rows and sortable headers, or the 'No devices found' block
RenderTable(rows) == IF rows = 0 THEN "empty" ELSE "table"

\* faulty variant: the nav is hidden for an empty result only
RenderPaginationShowsSinglePage(st, pg) ==
    IF st.totalPages < 1 THEN [pg EXCEPT !.visible = FALSE]
    ELSE [visible |-> TRUE, page |-> st.page, total |-> st.totalPages]

\* renderPagination(): hides the nav for totalPages <= 1 (leaving the list as it
\* was), else rewrites the list for state.page and state.totalPages
RenderPagination(st, pg) ==
    IF st.totalPages <= 1 THEN [pg EXCEPT !.visible = FALSE]
    ELSE [visible |-> TRUE, page |-> st.page, total |-> st.totalPages]

\* the goToPage(...) arguments baked into the rendered links: Prev, Next and
\* the concrete pages of buildPageRange
LinkTargets(pg) ==
    LET range == BuildPageRange(pg.page, pg.total)
    IN  {pg.page - 1, pg.page + 1}
        \cup { range[i].page : i \in { k \in 1..Len(range) : IsPageLink(range[k]) } }

\* #device-form after form.reset(), without the was-validated class and with
\* form-id = ''
BlankForm == [id |-> 0, fields |-> "blank", validated |-> FALSE]

\* the page after DOMContentLoaded: the first loadDevices() is on its way
InitPage ==
    /\ state = InitialState
    /\ inflight = IssueRequest(<<>>, InitialState)
    /\ display = [content |-> "initial", toast |-> "none"]
    /\ pager = [visible |-> FALSE, page |-> 0, total |-> 0]
    /\ inputValue = <<>>
    /\ timers = {}
    /\ searchDebounce = 0
    /\ modal = {}
    /\ authed = TRUE
    /\ calls = <<>>
    /\ form = BlankForm
    /\ deleteTargetId = 0
    /\ disabled = [save |-> FALSE, delete |-> FALSE]
    /\ busy = [save |-> FALSE, delete |-> FALSE]

NoOp == [name |-> "none", arg |-> 0]

NoHistory == [logouts |-> 0, opened |-> 0, pending |-> FALSE, fetched |-> 0]

\* buildPageRange has not been called
NoRange == [current |-> 0, total |-> 0, out |-> <<>>, done |-> FALSE]

InitTrace ==
    /\ shownOf = "none"
    /\ lastOp = NoOp
    /\ surplus = 0
    /\ deb = [active |-> FALSE, typed |-> <<>>, since |-> 0, cancelled |-> FALSE,
              cleared |-> FALSE, commits |-> 0, reloads |-> 0, committed |-> <<>>]
    /\ sortHist = [last |-> "", twice |-> FALSE, sort |-> "", direction |-> ""]
    /\ hist = NoHistory

InitHistory == InitTrace /\ rangeCall = NoRange

Init == InitPage /\ InitHistory /\ focus = "all"

(***************************************************************************)
(* Search input and its debounce timer.  Time is counted in clock steps of *)
(* which WindowTicks make the 350 ms window; a timer is run when it is     *)
(* due, before the clock moves on.                                         *)
(***************************************************************************)
\* faulty variant: the pending timer is not cancelled
ClearTimeoutForgotten(ts, handle) == ts

\* clearTimeout(handle)
ClearTimeout(ts, handle) == { t \in ts : t.id # handle }

\* setTimeout(...) returns a handle that no pending timer has
NewHandle(ts) ==
    SetMin({ h \in 1..(Cardinality(ts) + 1) : \A t \in ts : t.id # h })

\* faulty variant: the handle that setTimeout returns is not stored
SearchInputHandleLost(text) ==
    /\ text # inputValue
    /\ inputValue' = text
    /\ LET cleared == { t \in timers : t.id # searchDebounce }
       IN  timers' = cleared \cup {[id |-> NewHandle(cleared), left |-> WindowTicks]}
    /\ UNCHANGED <<state, inflight, display, pager, searchDebounce, modal, authed>>
    /\ UNCHANGED dialogs

\* 'input' listener of #search-input: the user changed the field to text
SearchInput(text) ==
    /\ text # inputValue
    /\ inputValue' = text
    /\ LET cleared == ClearTimeout(timers, searchDebounce)
           handle == NewHandle(cleared)
       IN  /\ timers' = cleared \cup {[id |-> handle, left |-> WindowTicks]}
           /\ searchDebounce' = handle
    /\ UNCHANGED <<state, inflight, display, pager, modal, authed>>
    /\ UNCHANGED dialogs

\* the callback of the search listener's setTimeout
SearchCommit(t) ==
    /\ t \in timers
    /\ t.left = 0
    /\ timers' = timers \ {t}
    /\ state' = [state EXCEPT !.q = Trim(inputValue), !.page = 0]
    /\ LoadDevices(state')
    /\ UNCHANGED <<display, pager, inputValue, searchDebounce, modal, authed>>
    /\ UNCHANGED dialogs

\* one clock step passes while a timer is pending
Tick ==
    /\ timers # {}
    /\ \A t \in timers : t.left > 0
    /\ timers' = { [t EXCEPT !.left = @ - 1] : t \in timers }
    /\ UNCHANGED <<state, inflight, display, pager, inputValue, searchDebounce,
                   modal, authed>>
    /\ UNCHANGED dialogs

(***************************************************************************)
(* Toolbar.                                                                *)
(***************************************************************************)
\* faulty variant: the status filter keeps the page index
StatusFilterChangeKeepsPage(v) ==
    /\ v # state.status
    /\ state' = [state EXCEPT !.status = v]
    /\ LoadDevices(state')
    /\ UNCHANGED <<display, pager, inputValue, timers, searchDebounce, modal, authed>>
    /\ UNCHANGED dialogs

\* 'change' listener of #status-filter
StatusFilterChange(v) ==
    /\ v # state.status
    /\ state' = [state EXCEPT !.status = v, !.page = 0]
    /\ LoadDevices(state')
    /\ UNCHANGED <<display, pager, inputValue, timers, searchDebounce, modal, authed>>
    /\ UNCHANGED dialogs

\* 'change' listener of #type-filter
TypeFilterChange(v) ==
    /\ v # state.type
    /\ state' = [state EXCEPT !.type = v, !.page = 0]
    /\ LoadDevices(state')
    /\ UNCHANGED <<display, pager, inputValue, timers, searchDebounce, modal, authed>>
    /\ UNCHANGED dialogs

\* faulty variant: the search field keeps its text
ClearFiltersKeepsInput ==
    /\ state' = [state EXCEPT !.q = <<>>, !.status = "", !.type = "", !.page = 0]
    /\ LoadDevices(state')
    /\ UNCHANGED <<display, pager, inputValue, timers, searchDebounce, modal, authed>>
    /\ UNCHANGED dialogs

\* 'click' listener of #clear-filters
ClearFilters ==
    /\ state' = [state EXCEPT !.q = <<>>, !.status = "", !.type = "", !.page = 0]
    /\ inputValue' = <<>>
    /\ LoadDevices(state')
    /\ UNCHANGED <<display, pager, timers, searchDebounce, modal, authed>>
    /\ UNCHANGED dialogs

(***************************************************************************)
(* Sorting and paging.                                                     *)
(***************************************************************************)
\* faulty variant: a second click on the sorted column only ever sets desc
SortDirectionOneWay(sort, direction, col) == IF sort = col THEN "desc" ELSE "asc"

\* faulty variant: a click on another column leaves the direction unset
SortDirectionUnsetOnNewColumn(sort, direction, col) ==
    IF sort = col THEN (IF direction = "asc" THEN "desc" ELSE "asc")
    ELSE ""

\* the direction sortBy(col) leaves
SortDirection(sort, direction, col) ==
    IF sort = col THEN (IF direction = "asc" THEN "desc" ELSE "asc")
    ELSE "asc"

\* sortBy(col), the onclick of a table header
SortBy(col) ==
    /\ display.content = "table"
    /\ state' = [state EXCEPT !.direction = SortDirection(state.sort, state.direction, col),
                              !.sort = col, !.page = 0]
    /\ LoadDevices(state')
    /\ UNCHANGED <<display, pager, inputValue, timers, searchDebounce, modal, authed>>
    /\ UNCHANGED dialogs

\* faulty variant: the guard with its upper bound off by one
PageAcceptedOffByOne(p, total) == ~(p < 0 \/ p > total)

\* the guard of goToPage: p is an index of a page of the last result
PageAccepted(p, total) == ~(p < 0 \/ p >= total)

\* goToPage(p), the onclick of a pagination link
GoToPage(p) ==
    /\ pager.visible
    /\ p \in LinkTargets(pager)
    /\ IF PageAccepted(p, state.totalPages)
       THEN /\ state' = [state EXCEPT !.page = p]
            /\ LoadDevices(state')
       ELSE UNCHANGED <<state, inflight>>
    /\ UNCHANGED <<display, pager, inputValue, timers, searchDebounce, modal, authed>>
    /\ UNCHANGED dialogs

(***************************************************************************)
(* Auto-refresh and modals.                                                *)
(***************************************************************************)
\* faulty variant: the tick reloads the first page
AutoRefreshFirstPage ==
    /\ state' = [state EXCEPT !.page = 0]
    /\ IF modal = {}
       THEN LoadDevices(state')
       ELSE UNCHANGED inflight
    /\ UNCHANGED <<display, pager, inputValue, timers, searchDebounce, modal, authed>>
    /\ UNCHANGED dialogs

\* the setInterval callback (every 30 s)
AutoRefresh ==
    /\ IF modal = {}
       THEN LoadDevices(state)
       ELSE UNCHANGED inflight
    /\ UNCHANGED <<state, display, pager, inputValue, timers, searchDebounce, modal,
                   authed>>
    /\ UNCHANGED dialogs

\* openCreateModal(), the click of #add-device-btn
OpenCreateModal ==
    /\ modal = {}
    /\ form' = BlankForm
    /\ modal' = modal \cup {"device"}
    /\ UNCHANGED <<state, inflight, display, pager, inputValue, timers,
                   searchDebounce, authed>>
    /\ UNCHANGED <<calls, deleteTargetId, disabled, busy>>

\* the user dismisses the modal on top (close button, Cancel, Esc, backdrop)
DismissModal ==
    /\ modal # {}
    /\ \E m \in modal : modal' = modal \ {m}
    /\ UNCHANGED <<state, inflight, display, pager, inputValue, timers,
                   searchDebounce, authed>>
    /\ UNCHANGED dialogs

(***************************************************************************)
(* The answer to list request i: apiFetch() after fetch() and              *)
(* loadDevices() after its await.                                          *)
(***************************************************************************)
\* showToast(message, type): the toast is appended to #toast-container, where
\* it is the newest one until the next toast or until it is removed after 4 s
ShowToast(toast, message) == message

Answered(i) ==
    /\ i \in 1..Len(inflight)
    /\ inflight' = RemoveAt(inflight, i)
    /\ UNCHANGED <<inputValue, timers, searchDebounce, modal>>
    /\ UNCHANGED dialogs

\* a 2xx response with body data: the try block of loadDevices
ListLoaded(i, data) ==
    /\ Answered(i)
    /\ state' = [state EXCEPT !.totalPages = Field(data, "totalPages", 0),
                              !.totalItems = Field(data, "totalElements", 0)]
    /\ display' = [display EXCEPT !.content = RenderTable(Field(data, "content", 0))]
    /\ pager' = RenderPagination(state', pager)
    /\ UNCHANGED authed

\* faulty variant: the catch block also resets the totals
ListFailedClearsTotals(i) ==
    /\ Answered(i)
    /\ state' = [state EXCEPT !.totalPages = 0, !.totalItems = 0]
    /\ display' = [content |-> "error", toast |-> ShowToast(display.toast, "load failed")]
    /\ UNCHANGED <<pager, authed>>

\* a network failure or a non-2xx, non-401 response: apiFetch throws, the catch
\* block of loadDevices replaces the table with the error block
ListFailed(i) ==
    /\ Answered(i)
    /\ display' = [content |-> "error", toast |-> ShowToast(display.toast, "load failed")]
    /\ UNCHANGED <<state, pager, authed>>

\* faulty variant: the TypeError after a 401 leaves loadDevices uncaught
ListUnauthorizedUncaught(i) ==
    /\ Answered(i)
    /\ authed' = FALSE
    /\ UNCHANGED <<state, display, pager>>

\* a 401: apiFetch calls logout() and returns undefined, data.totalPages throws
\* a TypeError and the catch block runs
ListUnauthorized(i) ==
    /\ Answered(i)
    /\ authed' = FALSE
    /\ display' = [content |-> "error", toast |-> ShowToast(display.toast, "load failed")]
    /\ UNCHANGED <<state, pager>>

\* some answer to request i arrives
Loaded(i) == \E data \in Answers(inflight[i]) : ListLoaded(i, data)

(***************************************************************************)
(* apiFetch() for the calls other than list requests.  logout() removes    *)
(* the credentials and assigns window.location; the page stays alive until *)
(* the new document arrives, so answers to requests already sent can still *)
(* be handled after it.                                                    *)
(***************************************************************************)
\* response.ok
Ok(status) == 200 <= status /\ status <= 299

Undefined == [js |-> "undefined"]

Null == [js |-> "null"]

\* faulty variant: a 401 is thrown like every other failure, without logout()
ApiFetchNoLogout(status, body) ==
    IF ~Ok(status) THEN [settled |-> "rejected", value |-> Undefined, logout |-> FALSE]
    ELSE IF status = 204 THEN [settled |-> "resolved", value |-> Null, logout |-> FALSE]
    ELSE [settled |-> "resolved", value |-> body, logout |-> FALSE]

\* apiFetch(path, options) once fetch() has answered with status and body: how
\* the promise settles, with which value, and whether logout() was called
ApiFetch(status, body) ==
    IF status = 401 THEN [settled |-> "resolved", value |-> Undefined, logout |-> TRUE]
    ELSE IF ~Ok(status) THEN [settled |-> "rejected", value |-> Undefined, logout |-> FALSE]
    ELSE IF status = 204 THEN [settled |-> "resolved", value |-> Null, logout |-> FALSE]
    ELSE [settled |-> "resolved", value |-> body, logout |-> FALSE]

\* the JSON body of a 200 answer to getDevice(id): the record as the server has it
DeviceBody(id) == [js |-> "object", id |-> id, fields |-> "fetched"]

\* the JSON body of a 200 answer to another call
SomeBody == [js |-> "object"]

\* reading a property of v throws a TypeError
Unreadable(v) == v \in {Undefined, Null}

Call(op, id) == [op |-> op, id |-> id]

\* the call is on its way: apiFetch() up to its await
Fetch(op, id) ==
    /\ Len(calls) < MaxInflight
    /\ calls' = Append(calls, Call(op, id))

\* call i is answered; r is what apiFetch made of the answer
Settle(i, r) ==
    /\ calls' = RemoveAt(calls, i)
    /\ authed' = IF r.logout THEN FALSE ELSE authed

(***************************************************************************)
(* Create / edit modal.                                                    *)
(***************************************************************************)
\* faulty variant: the form is filled from the table row and shown at once
OpenEditModalFromRow(id) ==
    /\ display.content = "table"
    /\ modal = {}
    /\ form' = [id |-> id, fields |-> "listed", validated |-> FALSE]
    /\ modal' = modal \cup {"device"}
    /\ UNCHANGED <<state, inflight, display, pager, inputValue, timers,
                   searchDebounce, authed>>
    /\ UNCHANGED <<calls, deleteTargetId, disabled, busy>>

\* openEditModal(id) up to its await, the onclick of a row's edit button;
\* form.reset() empties the fields (form-id keeps its value)
OpenEditModal(id) ==
    /\ display.content = "table"
    /\ modal = {}
    /\ form' = [form EXCEPT !.fields = "blank", !.validated = FALSE]
    /\ Fetch("getDevice", id)
    /\ UNCHANGED <<state, inflight, display, pager, inputValue, timers,
                   searchDebounce, modal, authed>>
    /\ UNCHANGED <<deleteTargetId, disabled, busy>>

\* openEditModal(id) after its await: getDevice(id) was answered with status
EditAnswered(i, status) ==
    /\ i \in 1..Len(calls)
    /\ calls[i].op = "getDevice"
    /\ LET r == ApiFetch(status, DeviceBody(calls[i].id))
       IN  /\ Settle(i, r)
           /\ IF r.settled = "resolved" /\ ~Unreadable(r.value)
              THEN /\ form' = [form EXCEPT !.id = r.value.id, !.fields = r.value.fields]
                   /\ modal' = modal \cup {"device"}
                   /\ UNCHANGED display
              ELSE /\ display' = [display EXCEPT
                                     !.toast = ShowToast(@, "edit failed")]
                   /\ UNCHANGED <<form, modal>>
    /\ UNCHANGED <<state, inflight, pager, inputValue, timers, searchDebounce>>
    /\ UNCHANGED <<deleteTargetId, disabled, busy>>

\* the user changes a field of the shown form
EditDraft ==
    /\ "device" \in modal
    /\ form.fields # "typed"
    /\ form' = [form EXCEPT !.fields = "typed"]
    /\ UNCHANGED program
    /\ UNCHANGED <<calls, deleteTargetId, disabled, busy>>

\* faulty variant: the Save button is left enabled while the request is out
SaveDeviceStaysEnabled(valid) ==
    /\ "device" \in modal
    /\ ~disabled.save
    /\ form' = [form EXCEPT !.validated = TRUE]
    /\ IF valid
       THEN Fetch(IF form.id # 0 THEN "updateDevice" ELSE "createDevice", form.id)
       ELSE UNCHANGED calls
    /\ UNCHANGED program
    /\ UNCHANGED <<deleteTargetId, disabled, busy>>

\* faulty variant: the request is sent without a look at checkValidity()
SaveDeviceUnvalidated(valid) ==
    /\ "device" \in modal
    /\ ~disabled.save
    /\ form' = [form EXCEPT !.validated = TRUE]
    /\ disabled' = [disabled EXCEPT !.save = TRUE]
    /\ busy' = [busy EXCEPT !.save = TRUE]
    /\ Fetch(IF form.id # 0 THEN "updateDevice" ELSE "createDevice", form.id)
    /\ UNCHANGED program
    /\ UNCHANGED deleteTargetId

\* saveDevice() up to its await, the click of #device-save-btn; valid is
\* form.checkValidity(), which an empty form does not pass; the form gets the
\* was-validated class either way
SaveDevice(valid) ==
    /\ "device" \in modal
    /\ ~disabled.save
    /\ form' = [form EXCEPT !.validated = TRUE]
    /\ IF valid
       THEN /\ disabled' = [disabled EXCEPT !.save = TRUE]
            /\ busy' = [busy EXCEPT !.save = TRUE]
            /\ Fetch(IF form.id # 0 THEN "updateDevice" ELSE "createDevice", form.id)
       ELSE UNCHANGED <<calls, disabled, busy>>
    /\ UNCHANGED program
    /\ UNCHANGED deleteTargetId

\* faulty variant: the button is restored on the success path, not in a finally
SaveAnsweredNoFinally(i, status) ==
    /\ i \in 1..Len(calls)
    /\ calls[i].op \in {"createDevice", "updateDevice"}
    /\ LET r == ApiFetch(status, SomeBody)
       IN  /\ Settle(i, r)
           /\ IF r.settled = "resolved"
              THEN /\ display' = [display EXCEPT !.toast = ShowToast(@, "saved")]
                   /\ modal' = modal \ {"device"}
                   /\ LoadDevices(state)
                   /\ disabled' = [disabled EXCEPT !.save = FALSE]
                   /\ busy' = [busy EXCEPT !.save = FALSE]
              ELSE /\ display' = [display EXCEPT
                                     !.toast = ShowToast(@, "save failed")]
                   /\ UNCHANGED <<modal, inflight, disabled, busy>>
    /\ UNCHANGED <<state, pager, inputValue, timers, searchDebounce>>
    /\ UNCHANGED <<form, deleteTargetId>>

\* saveDevice() after its await: the create or update was answered with status
SaveAnswered(i, status) ==
    /\ i \in 1..Len(calls)
    /\ calls[i].op \in {"createDevice", "updateDevice"}
    /\ LET r == ApiFetch(status, SomeBody)
       IN  /\ Settle(i, r)
           /\ IF r.settled = "resolved"
              THEN /\ display' = [display EXCEPT !.toast = ShowToast(@, "saved")]
                   /\ modal' = modal \ {"device"}
                   /\ LoadDevices(state)
              ELSE /\ display' = [display EXCEPT
                                     !.toast = ShowToast(@, "save failed")]
                   /\ UNCHANGED <<modal, inflight>>
    /\ disabled' = [disabled EXCEPT !.save = FALSE]
    /\ busy' = [busy EXCEPT !.save = FALSE]
    /\ UNCHANGED <<state, pager, inputValue, timers, searchDebounce>>
    /\ UNCHANGED <<form, deleteTargetId>>

(***************************************************************************)
(* Logs modal (#logs-content itself is not part of the state).             *)
(***************************************************************************)
\* openLogsModal(id, name) up to its await
OpenLogsModal(id) ==
    /\ display.content = "table"
    /\ modal = {}
    /\ modal' = modal \cup {"logs"}
    /\ Fetch("getDeviceLogs", id)
    /\ UNCHANGED <<state, inflight, display, pager, inputValue, timers,
                   searchDebounce, authed>>
    /\ UNCHANGED <<form, deleteTargetId, disabled, busy>>

\* openLogsModal(id, name) after its await: the logs or the failure are
\* rendered into #logs-content
LogsAnswered(i, status) ==
    /\ i \in 1..Len(calls)
    /\ calls[i].op = "getDeviceLogs"
    /\ Settle(i, ApiFetch(status, SomeBody))
    /\ UNCHANGED <<state, inflight, display, pager, inputValue, timers,
                   searchDebounce, modal>>
    /\ UNCHANGED <<form, deleteTargetId, disabled, busy>>

(***************************************************************************)
(* Delete modal.                                                           *)
(***************************************************************************)
\* openDeleteModal(id, name), the onclick of a row's delete button
OpenDeleteModal(id) ==
    /\ display.content = "table"
    /\ modal = {}
    /\ deleteTargetId' = id
    /\ modal' = modal \cup {"delete"}
    /\ UNCHANGED <<state, inflight, display, pager, inputValue, timers,
                   searchDebounce, authed>>
    /\ UNCHANGED <<calls, form, disabled, busy>>

\* faulty variant: the request is sent without a look at deleteTargetId
ConfirmDeleteUnguarded ==
    /\ ~disabled.delete
    /\ disabled' = [disabled EXCEPT !.delete = TRUE]
    /\ busy' = [busy EXCEPT !.delete = TRUE]
    /\ Fetch("deleteDevice", deleteTargetId)
    /\ UNCHANGED program
    /\ UNCHANGED <<form, deleteTargetId>>

\* confirmDelete() up to its await, the click of #confirm-delete-btn
ConfirmDelete ==
    /\ ~disabled.delete
    /\ IF deleteTargetId = 0
       THEN UNCHANGED <<calls, disabled, busy>>
       ELSE /\ disabled' = [disabled EXCEPT !.delete = TRUE]
            /\ busy' = [busy EXCEPT !.delete = TRUE]
            /\ Fetch("deleteDevice", deleteTargetId)
    /\ UNCHANGED program
    /\ UNCHANGED <<form, deleteTargetId>>

\* confirmDelete() after its await: the delete was answered with status
DeleteAnswered(i, status) ==
    /\ i \in 1..Len(calls)
    /\ calls[i].op = "deleteDevice"
    /\ LET r == ApiFetch(status, SomeBody)
       IN  /\ Settle(i, r)
           /\ IF r.settled = "resolved"
              THEN /\ display' = [display EXCEPT !.toast = ShowToast(@, "deleted")]
                   /\ modal' = modal \ {"delete"}
                   /\ deleteTargetId' = 0
                   /\ LoadDevices(state)
              ELSE /\ display' = [display EXCEPT
                                     !.toast = ShowToast(@, "delete failed")]
                   /\ UNCHANGED <<modal, deleteTargetId, inflight>>
    /\ disabled' = [disabled EXCEPT !.delete = FALSE]
    /\ busy' = [busy EXCEPT !.delete = FALSE]
    /\ UNCHANGED <<state, pager, inputValue, timers, searchDebounce>>
    /\ UNCHANGED form

\* the timeout of showToast removes the newest toast
ToastExpired ==
    /\ display.toast # "none"
    /\ display' = [display EXCEPT !.toast = "none"]
    /\ UNCHANGED <<state, inflight, pager, inputValue, timers, searchDebounce,
                   modal, authed>>
    /\ UNCHANGED dialogs

(***************************************************************************)
(* History.                                                                *)
(***************************************************************************)
\* the table shows the answer to request i of inflight
ShowsAnswer(i) == shownOf' = IF inflight[i].latest THEN "latest" ELSE "older"

\* a request was issued or not: what is shown is no longer the latest's answer
ShowsSame ==
    shownOf' = IF Len(inflight') > Len(inflight) /\ shownOf = "latest"
               THEN "older" ELSE shownOf

\* a mutation happened: count the requests it issued, minus one
Counted == surplus' = surplus + (Len(inflight') - Len(inflight)) - 1

\* an accepted goToPage is a mutation, an ignored one is none
CountedIf(accepted) ==
    surplus' = surplus + (Len(inflight') - Len(inflight)) - (IF accepted THEN 1 ELSE 0)

Did(name, arg) == lastOp' = [name |-> name, arg |-> arg]

\* an input event: it continues the burst if it follows the previous event by
\* less than the window, else it starts a new burst
Typed(text) ==
    deb' = [deb EXCEPT !.active = TRUE, !.typed = text, !.since = 0,
                       !.cancelled = \E t \in timers : t.id = searchDebounce,
                       !.cleared = FALSE,
                       !.commits = IF deb.active /\ deb.since < WindowTicks THEN @ ELSE 0,
                       !.reloads = IF deb.active /\ deb.since < WindowTicks THEN @ ELSE 0]

\* a debounce commit ran: what it assigned to state.q, the requests it issued
Committed ==
    deb' = [deb EXCEPT !.commits = @ + 1, !.committed = state'.q,
                       !.reloads = @ + Len(inflight') - Len(inflight)]

\* a clock step since the last input event
Waited == deb' = [deb EXCEPT !.since = Min(@ + 1, WindowTicks)]

\* clear-filters was clicked while a commit was pending
Cleared == deb' = [deb EXCEPT !.cleared = @ \/ timers # {}]

\* logout() was called once more (counted up to two calls)
OneMoreLogout(h) == [h EXCEPT !.logouts = Min(@ + 1, 2)]

\* an answer with status was handled by apiFetch
Handled(status) ==
    hist' = IF ApiFetch(status, SomeBody).logout THEN OneMoreLogout(hist) ELSE hist

\* getDevice(id) was answered: with a 200 it has returned the record of id
Fetched(id, status) ==
    hist' = [(IF ApiFetch(status, SomeBody).logout THEN OneMoreLogout(hist) ELSE hist)
                EXCEPT !.fetched = IF status = 200 THEN id ELSE @]

\* openDeleteModal(id, name) was called: id is the pending delete target
Opened(id) == hist' = [hist EXCEPT !.opened = id, !.pending = TRUE]

\* a delete was answered: after a successful one no target is pending
Deleted(status) ==
    hist' = [(IF ApiFetch(status, SomeBody).logout THEN OneMoreLogout(hist) ELSE hist)
                EXCEPT !.pending = IF Ok(status) THEN FALSE ELSE @]

\* a sortBy(col) call: the sort it found, and whether the call before it was
\* for the same column
Sorted(col) ==
    sortHist' = [last |-> col, twice |-> sortHist.last = col,
                 sort |-> state.sort, direction |-> state.direction]

(***************************************************************************)
(* The whole page.                                                         *)
(***************************************************************************)
Next ==
    /\ \/ \E text \in Texts : SearchInput(text)
       \/ \E t \in timers : SearchCommit(t)
       \/ Tick
       \/ \E v \in StatusOptions : StatusFilterChange(v)
       \/ \E v \in TypeOptions : TypeFilterChange(v)
       \/ ClearFilters
       \/ \E col \in Cols : SortBy(col)
       \/ \E p \in -1..MaxPages : GoToPage(p)
       \/ AutoRefresh
       \/ OpenCreateModal
       \/ DismissModal
       \/ \E i \in 1..Len(inflight) : Loaded(i)
       \/ \E i \in 1..Len(inflight) : ListFailed(i)
       \/ \E i \in 1..Len(inflight) : ListUnauthorized(i)
       \/ \E id \in DeviceIds : OpenEditModal(id)
       \/ \E i \in 1..Len(calls), status \in Statuses : EditAnswered(i, status)
       \/ EditDraft
       \/ \E valid \in { v \in BOOLEAN : v => form.fields # "blank" } : SaveDevice(valid)
       \/ \E i \in 1..Len(calls), status \in Statuses : SaveAnswered(i, status)
       \/ \E id \in DeviceIds : OpenLogsModal(id)
       \/ \E i \in 1..Len(calls), status \in Statuses : LogsAnswered(i, status)
       \/ \E id \in DeviceIds : OpenDeleteModal(id)
       \/ ConfirmDelete
       \/ \E i \in 1..Len(calls), status \in Statuses : DeleteAnswered(i, status)
       \/ ToastExpired
    /\ UNCHANGED <<shownOf, lastOp, surplus, deb, sortHist, hist, rangeCall, focus>>

Spec == Init /\ [][Next]_vars

(***************************************************************************)
(* Paging, auto-refresh and the answers to list requests.                  *)
(***************************************************************************)
NextPaging ==
    /\ \/ \E p \in -1..MaxPages : GoToPage(p) /\ Did("goToPage", p) /\ ShowsSame
       \/ \E v \in StatusOptions : StatusFilterChange(v) /\ Did("status", 0) /\ ShowsSame
       \/ AutoRefresh /\ Did("refresh", 0) /\ ShowsSame
       \/ OpenCreateModal /\ Did("openCreate", 0) /\ ShowsSame
       \/ DismissModal /\ Did("dismiss", 0) /\ ShowsSame
       \/ \E i \in 1..Len(inflight) : Loaded(i) /\ Did("response", 0) /\ ShowsAnswer(i)
       \/ \E i \in 1..Len(inflight) : ListFailed(i) /\ Did("response", 0) /\ ShowsAnswer(i)
    /\ UNCHANGED <<surplus, deb, sortHist, hist, rangeCall, focus>>

InitPaging == InitPage /\ InitHistory /\ focus = "paging"

SpecPaging == InitPaging /\ [][NextPaging]_vars

(***************************************************************************)
(* Every Query State mutator and the successful answers to list requests   *)
(* (failed ones are part of the other specifications).  In one             *)
(* session the user works with the pagination links and one group of       *)
(* controls: the search field, the filters or the table headers.           *)
(***************************************************************************)
NextMutators ==
    /\ \/ /\ focus = "search"
          /\ \E text \in FewTexts : SearchInput(text)
          /\ UNCHANGED surplus
       \/ /\ focus = "search"
          /\ \E t \in timers : SearchCommit(t)
          /\ Counted
       \/ /\ focus = "search"
          /\ Tick
          /\ UNCHANGED surplus
       \/ /\ focus = "filters"
          /\ \E v \in StatusOptions : StatusFilterChange(v)
          /\ Counted
       \/ /\ focus = "filters"
          /\ \E v \in TypeOptions : TypeFilterChange(v)
          /\ Counted
       \/ /\ focus \in {"search", "filters"}
          /\ ClearFilters
          /\ Counted
       \/ /\ focus = "sort"
          /\ \E col \in Cols : SortBy(col)
          /\ Counted
       \/ \E p \in -1..MaxPages :
             /\ GoToPage(p)
             /\ CountedIf(0 <= p /\ p < state.totalPages)
       \/ /\ \E i \in 1..Len(inflight) : Loaded(i)
          /\ UNCHANGED surplus
    /\ UNCHANGED <<shownOf, lastOp, deb, sortHist, hist, rangeCall, focus>>

InitMutators == InitPage /\ InitHistory /\ focus \in {"search", "filters", "sort"}

SpecMutators == InitMutators /\ [][NextMutators]_vars

(***************************************************************************)
(* The table headers and the answers to list requests.                     *)
(***************************************************************************)
NextSort ==
    /\ \/ \E col \in Cols : SortBy(col) /\ Sorted(col)
       \/ \E i \in 1..Len(inflight) : Loaded(i) /\ UNCHANGED sortHist
       \/ \E i \in 1..Len(inflight) : ListFailed(i) /\ UNCHANGED sortHist
    /\ UNCHANGED <<shownOf, lastOp, surplus, deb, hist, rangeCall, focus>>

InitSort == InitPage /\ InitHistory /\ focus = "sort"

SpecSort == InitSort /\ [][NextSort]_vars

(***************************************************************************)
(* The search field, its debounce timer, clear-filters and the answers to  *)
(* list requests.                                                          *)
(***************************************************************************)
NextSearch ==
    /\ \/ \E text \in Texts : SearchInput(text) /\ Typed(text)
       \/ \E t \in timers : SearchCommit(t) /\ Committed
       \/ Tick /\ Waited
       \/ ClearFilters /\ Cleared
       \/ \E i \in 1..Len(inflight) : Loaded(i) /\ UNCHANGED deb
       \/ \E i \in 1..Len(inflight) : ListFailed(i) /\ UNCHANGED deb
    /\ UNCHANGED <<shownOf, lastOp, surplus, sortHist, hist, rangeCall, focus>>

InitSearch == InitPage /\ InitHistory /\ focus = "search"

SpecSearch == InitSearch /\ [][NextSearch]_vars

(***************************************************************************)
(* The dialogs, auto-refresh, and the answers to every kind of request.    *)
(* In one session the user works with one kind of dialog: the create and   *)
(* edit modal, the delete modal or the logs modal.  The server holds one   *)
(* page of devices.  After logout() the page is on its way to index.html:  *)
(* the user and the timers do nothing more, answers to requests already    *)
(* sent still arrive.                                                      *)
(***************************************************************************)
NextDialogs ==
    /\ \/ /\ authed
          /\ focus = "edit"
          /\ \/ OpenCreateModal
             \/ \E id \in DeviceIds : OpenEditModal(id)
             \/ EditDraft
             \/ \E valid \in { v \in BOOLEAN : v => form.fields # "blank" } : SaveDevice(valid)
          /\ UNCHANGED hist
       \/ /\ authed
          /\ focus = "logs"
          /\ \E id \in DeviceIds : OpenLogsModal(id)
          /\ UNCHANGED hist
       \/ /\ authed
          /\ focus = "delete"
          /\ \E id \in DeviceIds : OpenDeleteModal(id) /\ Opened(id)
       \/ /\ authed
          /\ focus = "delete"
          /\ ConfirmDelete
          /\ UNCHANGED hist
       \/ /\ authed
          /\ DismissModal
          /\ UNCHANGED hist
       \/ /\ authed
          /\ AutoRefresh
          /\ UNCHANGED hist
       \/ /\ ToastExpired
          /\ UNCHANGED hist
       \/ \E i \in 1..Len(calls), status \in Statuses :
             EditAnswered(i, status) /\ Fetched(calls[i].id, status)
       \/ \E i \in 1..Len(calls), status \in Statuses :
             SaveAnswered(i, status) /\ Handled(status)
       \/ \E i \in 1..Len(calls), status \in Statuses :
             LogsAnswered(i, status) /\ Handled(status)
       \/ \E i \in 1..Len(calls), status \in Statuses :
             DeleteAnswered(i, status) /\ Deleted(status)
       \/ \E i \in 1..Len(inflight) : ListLoaded(i, PageAnswer(1, 0)) /\ UNCHANGED hist
       \/ \E i \in 1..Len(inflight) : ListFailed(i) /\ UNCHANGED hist
       \/ \E i \in 1..Len(inflight) : ListUnauthorized(i) /\ hist' = OneMoreLogout(hist)
    /\ UNCHANGED <<shownOf, lastOp, surplus, deb, sortHist, rangeCall, focus>>

InitDialogs == InitPage /\ InitHistory /\ focus \in {"edit", "logs", "delete"}

SpecDialogs == InitDialogs /\ [][NextDialogs]_vars

(***************************************************************************)
(* The list reloads and every way their requests can end: a page of any    *)
(* size with or without rows, a failure, a 401.  No dialog is opened.      *)
(* After logout() the user and the timers do nothing more.                 *)
(***************************************************************************)
NextReload ==
    /\ \/ authed /\ AutoRefresh
       \/ authed /\ \E v \in StatusOptions : StatusFilterChange(v)
       \/ authed /\ \E p \in -1..MaxPages : GoToPage(p)
       \/ \E i \in 1..Len(inflight) : Loaded(i)
       \/ \E i \in 1..Len(inflight) : ListFailed(i)
       \/ \E i \in 1..Len(inflight) : ListUnauthorized(i)
       \/ ToastExpired
    /\ UNCHANGED <<shownOf, lastOp, surplus, deb, sortHist, hist, rangeCall, focus>>

InitReload == InitPage /\ InitHistory /\ focus = "reload"

SpecReload == InitReload /\ [][NextReload]_vars

(***************************************************************************)
(* Every intent that reads or writes the query fields of state: the        *)
(* toolbar, the table headers, the pagination links, the auto-refresh      *)
(* timer, and the answers to list requests.  In one session the user works *)
(* with one group of controls.                                             *)
(***************************************************************************)
NextIntents ==
    /\ \/ /\ focus = "search"
          /\ \E text \in FewTexts : SearchInput(text)
          /\ Did("input", 0)
       \/ /\ focus = "search"
          /\ \E t \in timers : SearchCommit(t)
          /\ Did("commit", 0)
       \/ /\ focus = "search"
          /\ Tick
          /\ Did("tick", 0)
       \/ /\ focus = "filters"
          /\ \E v \in StatusOptions : StatusFilterChange(v)
          /\ Did("status", 0)
       \/ /\ focus = "filters"
          /\ \E v \in TypeOptions : TypeFilterChange(v)
          /\ Did("type", 0)
       \/ /\ focus = "sort"
          /\ \E col \in Cols : SortBy(col)
          /\ Did("sort", 0)
       \/ /\ focus = "paging"
          /\ \E p \in -1..MaxPages : GoToPage(p)
          /\ Did("goToPage", 0)
       \/ AutoRefresh /\ Did("refresh", 0)
       \/ \E i \in 1..Len(inflight) : Loaded(i) /\ Did("response", 0)
       \/ \E i \in 1..Len(inflight) : ListFailed(i) /\ Did("response", 0)
    /\ UNCHANGED <<shownOf, surplus, deb, sortHist, hist, rangeCall, focus>>

InitIntents ==
    InitPage /\ InitHistory /\ focus \in {"search", "filters", "sort", "paging"}

SpecIntents == InitIntents /\ [][NextIntents]_vars

(***************************************************************************)
(* A long list that shrinks: the server reports many pages, fewer pages or *)
(* few pages; the user follows the first and the last page link and the    *)
(* auto-refresh timer reloads.                                             *)
(***************************************************************************)
\* the totalPages the server reports
ShrinkTotals == {3, MaxTotal - 4, MaxTotal}

NextShrink ==
    /\ \/ \E p \in {0, pager.total - 1} : GoToPage(p)
       \/ AutoRefresh
       \/ \E i \in 1..Len(inflight), tp \in ShrinkTotals :
             ListLoaded(i, PageAnswer(tp, inflight[i].page))
    /\ UNCHANGED <<shownOf, lastOp, surplus, deb, sortHist, hist, rangeCall, focus>>

InitShrink == InitPage /\ InitHistory /\ focus = "shrink"

SpecShrink == InitShrink /\ [][NextShrink]_vars

(***************************************************************************)
(* buildPageRange as a function of its arguments: a call with any current  *)
(* page from 0 on, within the total or beyond it (state.page is not        *)
(* clamped when the total shrinks), and any total up to MaxTotal.          *)
(***************************************************************************)
\* the calls of buildPageRange(current, total) before they are made
RangeCalls ==
    [current : 0..(MaxTotal + 2), total : 0..MaxTotal, out : {<<>>}, done : {FALSE}]

\* the call is made
BuildRange ==
    /\ ~rangeCall.done
    /\ rangeCall' = [rangeCall EXCEPT
                        !.out = BuildPageRange(rangeCall.current, rangeCall.total),
                        !.done = TRUE]
    /\ UNCHANGED <<program, dialogs, shownOf, lastOp, surplus, deb, sortHist, hist,
                   focus>>

NextRange == BuildRange

InitRange == InitPage /\ InitTrace /\ focus = "range" /\ rangeCall \in RangeCalls

SpecRange == InitRange /\ [][NextRange]_vars

(***************************************************************************)
(* Properties.                                                             *)
(***************************************************************************)
\* C1: when every list request has been answered, the table shows the answer
\* to the request issued last: the late answer to an earlier request is dropped.
C1_LatestAnswerShown == inflight = <<>> => shownOf = "latest"

\* C2: the answer to a request after which a newer request was issued is
\* discarded: it changes neither state nor the table nor the pagination.
C2_StaleAnswerDiscarded ==
    [][\A i \in 1..Len(inflight) :
          (inflight' = RemoveAt(inflight, i) /\ ~inflight[i].latest)
          => UNCHANGED <<state, display, pager>>]_vars

\* C3: state.page is 0 (a mutator reset it, or nothing was loaded yet) or it
\* is less than the totalPages observed last.
C3_PageBelowTotalPages == state.page = 0 \/ state.page < state.totalPages

\* C4: no list request is issued for a page p > 0 that is not below the
\* totalPages observed last.
C4_NoRequestBeyondLastPage ==
    [][Len(inflight') > Len(inflight)
       => LET req == inflight'[Len(inflight')]
          IN  req.page = 0 \/ req.page < state'.totalPages]_vars

\* C5: goToPage(n) with n < 0 or n >= state.totalPages changes no state and
\* issues no request; with 0 <= n < state.totalPages it sets state.page to n,
\* changes nothing else of state and issues exactly one request, for page n.
C5_GoToPage ==
    [][\A n \in -1..(MaxPages + 1) :
          GoToPage(n)
          => IF 0 <= n /\ n < state.totalPages
             THEN /\ state' = [state EXCEPT !.page = n]
                  /\ Len(inflight') = Len(inflight) + 1
                  /\ inflight'[Len(inflight')].page = n
             ELSE UNCHANGED program]_vars

\* C5 witness: on a page beyond the first (an accepted goToPage), the last
\* click was a goToPage for a page outside the result and left the page alone.
C5_Witness ==
    /\ lastOp.name = "goToPage"
    /\ lastOp.arg < 0 \/ lastOp.arg >= state.totalPages
    /\ state.page > 0
    /\ state.page # lastOp.arg

\* C6: every mutation (sortBy, a filter change, a committed search,
\* clear-filters, an accepted goToPage) has issued exactly one list request,
\* so the requests issued by mutators never exceed the mutations, also when a
\* request is still outstanding.
C6_OneRequestPerMutation == surplus = 0

\* C6 witness: two requests are outstanding and the later one asks for another
\* query than the earlier one, so a mutator ran while a request was outstanding.
C6_Witness ==
    /\ Len(inflight) >= 2
    /\ [inflight[Len(inflight)] EXCEPT !.latest = FALSE] # inflight[Len(inflight) - 1]
    /\ inflight[Len(inflight)] = Request(state)

Flipped(direction) == IF direction = "asc" THEN "desc" ELSE "asc"

\* C7 (as amended): sortBy(col) flips the direction when col is the sort
\* column and else sorts by col ascending; the second of two calls in a row
\* for the same column restores the direction found by the first call when
\* col was the sort column then, and else leaves desc.
C7_SortToggle ==
    [][\A col \in Cols :
          SortBy(col)
          => /\ state'.sort = col
             /\ state'.direction \in {"asc", "desc"}
             /\ state'.direction =
                   IF state.sort = col THEN Flipped(state.direction) ELSE "asc"
             /\ sortHist.last = col
                => state'.direction =
                      IF sortHist.sort = col THEN sortHist.direction ELSE "desc"]_vars

\* C7 as stated: sortBy(col) flips the direction when col is the sort column
\* and else sorts by col ascending, and the second of two calls in a row for
\* the same column restores the direction found by the first call.
C7_TwoCallsRestore ==
    [][\A col \in Cols :
          SortBy(col)
          => /\ state'.sort = col
             /\ state'.direction =
                   IF state.sort = col THEN Flipped(state.direction) ELSE "asc"
             /\ sortHist.last = col => state'.direction = sortHist.direction]_vars

\* C7 witness: sortBy was called twice in a row for the same column.
C7_Witness == sortHist.twice /\ state.sort = sortHist.last

\* a step of a Query State mutator other than goToPage
ResetMutator ==
    \/ \E col \in Cols : SortBy(col)
    \/ \E v \in StatusOptions : StatusFilterChange(v)
    \/ \E v \in TypeOptions : TypeFilterChange(v)
    \/ \E t \in timers : SearchCommit(t)
    \/ ClearFilters

\* C8: every mutator other than goToPage leaves state.page = 0 and issues a
\* request for page 0, whatever the page was.
C8_MutatorsResetPage ==
    [][ResetMutator
       => /\ state'.page = 0
          /\ Len(inflight') = Len(inflight) + 1
          /\ inflight'[Len(inflight')].page = 0]_vars

\* C8 witness: while the request that goToPage issued for a later page was
\* outstanding, a mutator that changed the sort, a filter or the search text
\* issued a request for page 0.
C8_Witness ==
    /\ Len(inflight) >= 2
    /\ inflight[Len(inflight) - 1].page > 0
    /\ inflight[Len(inflight)].page = 0
    /\ [inflight[Len(inflight)] EXCEPT !.latest = FALSE, !.page = 0]
          # [inflight[Len(inflight) - 1] EXCEPT !.page = 0]
    /\ state.page = 0

\* a full window has passed since the last search input event and the timer
\* that was due has run
SilenceComplete == deb.active /\ deb.since = WindowTicks /\ timers = {}

\* C9 (as amended): a burst of input events followed by a full window of
\* silence commits once and reloads once, and the commit carries the trimmed
\* text of the last event, or the empty text if clear-filters was clicked
\* after that event.
C9_OneCommitPerBurst ==
    SilenceComplete
    => /\ deb.commits = 1
       /\ deb.reloads = 1
       /\ deb.committed = IF deb.cleared THEN <<>> ELSE Trim(deb.typed)

\* C9 as stated: a burst followed by a full window of silence commits once
\* and reloads once, and the commit carries the text of the last event.
C9_CommitCarriesLastText ==
    SilenceComplete
    => /\ deb.commits = 1
       /\ deb.reloads = 1
       /\ deb.committed = deb.typed

\* C9 witness: a burst whose last event cancelled the commit of the event
\* before it was followed by a full window of silence.
C9_Witness == SilenceComplete /\ deb.cancelled /\ deb.typed # <<>>

\* C10: at most one debounce commit is pending, it is the one the last input
\* event scheduled, due a window after that event, and no commit of an earlier
\* event of the burst has run.
C10_OnePendingCommit ==
    /\ Cardinality(timers) <= 1
    /\ \A t \in timers :
          /\ t.id = searchDebounce
          /\ t.left = WindowTicks - deb.since
    /\ timers # {} => deb.commits = 0 /\ deb.reloads = 0

\* C10 witness: an input event cancelled the pending commit of the event
\* before it and its own commit is pending.
C10_Witness == deb.cancelled /\ timers # {} /\ deb.since > 0

\* an edit flow has started and its getDevice call is not yet answered
EditFlowActive == \E i \in 1..Len(calls) : calls[i].op = "getDevice"

\* C11: an auto-refresh tick issues no list request while a modal is shown or
\* an edit flow is active, and else issues exactly one request for the
\* current Query State.
C11_RefreshSuppressed ==
    [][AutoRefresh
       => IF modal # {} \/ EditFlowActive
          THEN UNCHANGED inflight
          ELSE /\ Len(inflight') = Len(inflight) + 1
               /\ inflight'[Len(inflight')] = Request(state)]_vars

\* a step in which apiFetch handles a 401
Answered401 ==
    \/ \E i \in 1..Len(inflight) : ListUnauthorized(i)
    \/ \E i \in 1..Len(calls) :
          \/ EditAnswered(i, 401)
          \/ SaveAnswered(i, 401)
          \/ LogsAnswered(i, 401)
          \/ DeleteAnswered(i, 401)

\* C12: a 401 answer to any request made through apiFetch calls logout and
\* leaves no stored credentials.
C12_UnauthorizedLogsOut ==
    [][Answered401 => ~authed' /\ hist'.logouts > 0]_vars

\* C12 witness: a 401 was answered while another request was out, and the
\* credentials are gone.
C12_Witness == ~authed /\ hist.logouts = 1 /\ Len(inflight) + Len(calls) > 0

\* C13: logout is called at most once in a session, however many requests in
\* flight are answered with a 401.
C13_LogoutOnce == hist.logouts <= 1

ErrorToasts == {"load failed", "edit failed", "save failed", "delete failed"}

\* C14: a 401 answer produces neither the 'Failed to load devices' block nor
\* an error toast.
C14_UnauthorizedBypassesErrors ==
    [][Answered401
       => /\ display'.content = display.content
          /\ display'.toast \in ErrorToasts => display'.toast = display.toast]_vars

\* C15: after every answer that is not a 2xx the caller is on its failure
\* path, which for openEditModal, saveDevice and confirmDelete shows the
\* caller's error toast.
C15_FailureForEveryNonSuccess ==
    [][\A status \in { st \in Statuses : ~Ok(st) } :
          \A i \in 1..Len(calls) :
             /\ EditAnswered(i, status) => display'.toast = "edit failed"
             /\ SaveAnswered(i, status) => display'.toast = "save failed"
             /\ DeleteAnswered(i, status) => display'.toast = "delete failed"]_vars

\* C16: saveDevice closes the device modal, shows the success notice and
\* reloads the list if and only if the create or update succeeded; after a
\* failed one the modal and the draft stay, the error is shown and no reload
\* is issued.
C16_SaveOutcome ==
    [][\A status \in Statuses :
          \A i \in 1..Len(calls) :
             SaveAnswered(i, status)
             => IF Ok(status)
                THEN /\ "device" \notin modal'
                     /\ display'.toast = "saved"
                     /\ Len(inflight') = Len(inflight) + 1
                ELSE /\ modal' = modal
                     /\ form' = form
                     /\ display'.toast = "save failed"
                     /\ UNCHANGED inflight]_vars

\* C17: a deleteDevice call is issued only by confirmDelete, while a target
\* opened by openDeleteModal is pending, and for the id of the most recent
\* openDeleteModal; confirmDelete without a pending target sends nothing.
C17_DeleteAfterConfirmation ==
    [][/\ (Len(calls') > Len(calls) /\ calls'[Len(calls')].op = "deleteDevice")
          => /\ ConfirmDelete
             /\ hist.pending
             /\ calls'[Len(calls')].id = hist.opened
       /\ (ConfirmDelete /\ ~hist.pending) => UNCHANGED calls]_vars

\* C17 witness: the delete request for the device of the most recent
\* openDeleteModal is out.
C17_Witness ==
    /\ calls # <<>>
    /\ calls[Len(calls)] = Call("deleteDevice", hist.opened)
    /\ hist.pending
    /\ disabled.delete

\* C18: confirmDelete closes the confirmation modal, clears the target and
\* reloads the list if and only if the delete succeeded; after a failed one
\* the error is shown, no reload is issued and the target is kept.
C18_DeleteOutcome ==
    [][\A status \in Statuses :
          \A i \in 1..Len(calls) :
             DeleteAnswered(i, status)
             => IF Ok(status)
                THEN /\ "delete" \notin modal'
                     /\ deleteTargetId' = 0
                     /\ display'.toast = "deleted"
                     /\ Len(inflight') = Len(inflight) + 1
                ELSE /\ modal' = modal
                     /\ deleteTargetId' = deleteTargetId
                     /\ display'.toast = "delete failed"
                     /\ UNCHANGED inflight]_vars

\* C19: openEditModal does not show the modal before getDevice is answered;
\* a 200 answer fills the form from the returned record and shows the modal,
\* any other answer leaves modal and form alone and shows an error; so a
\* shown form with an id holds the record getDevice returned for that id
\* (or what the user typed over it), never a table row.
C19_EditAfterFetch ==
    [][/\ \A id \in DeviceIds : OpenEditModal(id) => modal' = modal
       /\ \A status \in Statuses :
             \A i \in 1..Len(calls) :
                EditAnswered(i, status)
                => IF status = 200
                   THEN /\ form'.id = calls[i].id
                        /\ form'.fields = "fetched"
                        /\ "device" \in modal'
                   ELSE /\ modal' = modal
                        /\ form' = form
                        /\ display'.toast = "edit failed"
       /\ ("device" \in modal' /\ form'.id # 0)
          => /\ hist'.fetched = form'.id
             /\ form'.fields \in {"fetched", "typed"}]_vars

\* C19 witness: the modal is shown in edit mode with the fetched record.
C19_Witness ==
    /\ "device" \in modal
    /\ form.id # 0
    /\ form.fields = "fetched"
    /\ hist.fetched = form.id

\* the calls of the given kinds that are out
CallsOf(ops) == Cardinality({ i \in 1..Len(calls) : calls[i].op \in ops })

\* C20: at most one create or update request and at most one delete request
\* is out, and exactly while it is out its button is disabled.
C20_OneRequestPerButton ==
    /\ CallsOf({"createDevice", "updateDevice"}) = IF disabled.save THEN 1 ELSE 0
    /\ CallsOf({"deleteDevice"}) = IF disabled.delete THEN 1 ELSE 0

\* C20 witness: the device modal is shown with its Save button disabled while
\* the save request is out.
C20_Witness ==
    /\ "device" \in modal
    /\ disabled.save
    /\ CallsOf({"createDevice", "updateDevice"}) = 1


\* C21: when the answer to a save or delete request has been handled, by
\* success, server failure, network failure or 401 alike, the button that
\* sent it is enabled with its label restored and its spinner hidden; the
\* button is disabled or busy only while a request of its action is out.
C21_ButtonRestored ==
    [][/\ \A i \in 1..Len(calls) :
             calls' = RemoveAt(calls, i)
             => /\ calls[i].op \in {"createDevice", "updateDevice"}
                   => ~disabled'.save /\ ~busy'.save
                /\ calls[i].op = "deleteDevice"
                   => ~disabled'.delete /\ ~busy'.delete
       /\ (disabled'.save \/ busy'.save)
          => \E k \in 1..Len(calls') : calls'[k].op \in {"createDevice", "updateDevice"}
       /\ (disabled'.delete \/ busy'.delete)
          => \E k \in 1..Len(calls') : calls'[k].op = "deleteDevice"]_vars

\* C21 witness: a save has failed, the modal is still shown and its Save
\* button is enabled again with label and spinner restored.
C21_Witness ==
    /\ display.toast = "save failed"
    /\ "device" \in modal
    /\ form.validated
    /\ ~disabled.save
    /\ ~busy.save
    /\ CallsOf({"createDevice", "updateDevice"}) = 0


\* C22: a click on Save while the form fails checkValidity() sends no create
\* or update request, leaves the modal shown and the draft as it is, leaves
\* the Save button enabled and issues no list reload.
C22_InvalidFormSendsNothing ==
    [][SaveDevice(FALSE)
       => /\ calls' = calls
          /\ modal' = modal
          /\ "device" \in modal'
          /\ form'.id = form.id
          /\ form'.fields = form.fields
          /\ ~disabled'.save
          /\ ~busy'.save
          /\ inflight' = inflight
          /\ display' = display]_vars

\* C22 witness: Save was clicked on the empty form of 'Add Device', which is
\* marked as validated; the modal is shown, nothing was sent.
C22_Witness ==
    /\ "device" \in modal
    /\ form.validated
    /\ form.fields = "blank"
    /\ calls = <<>>
    /\ ~disabled.save
    /\ display.toast = "none"


\* C23: the handling of every answer to a list request, a page, a network
\* failure, a non-2xx status or a 401, ends in the loaded display (the table
\* or 'No devices found') or in the error display together with the failure
\* notice; once an answer has been handled #table-content never shows the
\* loading placeholder again.
C23_ReloadEndsLoadedOrFailed ==
    [][/\ Len(inflight') < Len(inflight)
          => /\ display'.content \in {"table", "empty", "error"}
             /\ display'.content = "error" => display'.toast = "load failed"
       /\ display.content # "initial" => display'.content # "initial"]_vars

\* C23 witness: a list request was answered with 401 and the error display
\* is shown, no request is outstanding.
C23_Witness ==
    /\ focus = "reload"
    /\ ~authed
    /\ inflight = <<>>
    /\ display.content = "error"


\* C24: a successful list response without rows renders 'No devices found',
\* one with rows renders the table, and a failed request (network, non-2xx
\* or 401) renders the error block: a failure is never shown as 'no results'
\* or as a table, an empty success is never shown as an error.
C24_EmptyAndErrorDistinct ==
    [][\A i \in 1..Len(inflight) :
          /\ (ListFailed(i) \/ ListUnauthorized(i))
             => /\ display'.content = "error"
                /\ display'.content \notin {"empty", "table", "initial"}
          /\ \A data \in Answers(inflight[i]) :
                ListLoaded(i, data)
                => IF Field(data, "content", 0) = 0
                   THEN display'.content = "empty" /\ display'.content # "error"
                   ELSE display'.content = "table"]_vars

\* C24 witness: after a failed reload, whose notice is still on screen, an
\* empty page arrived and 'No devices found' is shown.
C24_Witness ==
    /\ focus = "reload"
    /\ display.content = "empty"
    /\ display.toast = "load failed"
    /\ state.totalItems = 0


\* C25: a list request that fails (network failure or non-2xx, non-401
\* status) leaves state as it was: totalPages, totalItems, page, size, sort,
\* direction, status, type and q keep their values.
C25_FailureKeepsState ==
    [][\A i \in 1..Len(inflight) :
          ListFailed(i)
          => /\ state' = state
             /\ \A f \in {"totalPages", "totalItems", "page", "size", "sort",
                           "direction", "status", "type", "q"} :
                   state'[f] = state[f]]_vars

\* C25 witness: the error block is shown after a failure while state still
\* holds the totals of the last good load and a filtered query.
C25_Witness ==
    /\ focus = "reload"
    /\ authed
    /\ display.content = "error"
    /\ state.totalPages = MaxPages
    /\ state.totalItems > 0
    /\ state.status # ""

\* C26: after a failed reload the rows, the item count and the pagination
\* (totalPages and the pagination control) are all as the last good load
\* left them, or are all cleared; never some cleared and some retained.
C26_FailureAllOrNothing ==
    [][\A i \in 1..Len(inflight) :
          ListFailed(i)
          => \/ /\ display'.content = display.content
                /\ state'.totalItems = state.totalItems
                /\ state'.totalPages = state.totalPages
                /\ pager' = pager
             \/ /\ display'.content = "error"
                /\ state'.totalItems = 0
                /\ state'.totalPages = 0
                /\ ~pager'.visible]_vars


\* the positions of the page links, and of the ellipsis markers, in a range
LinksIn(out) == { k \in 1..Len(out) : IsPageLink(out[k]) }

EllipsesIn(out) == { k \in 1..Len(out) : ~IsPageLink(out[k]) }

\* C27: for 0 <= totalPages <= 7 and every current page, buildPageRange
\* returns the pages 0 .. totalPages - 1 in increasing order, each once, and
\* no ellipsis marker.
C27_ShortRangeIsEveryPage ==
    (rangeCall.done /\ rangeCall.total <= 7)
    => /\ Len(rangeCall.out) = rangeCall.total
       /\ \A k \in 1..Len(rangeCall.out) :
             /\ IsPageLink(rangeCall.out[k])
             /\ rangeCall.out[k].page = k - 1

\* C27 witness: buildPageRange was called for the middle page of seven and
\* returned seven entries.
C27_Witness ==
    /\ rangeCall.done
    /\ rangeCall.total = 7
    /\ rangeCall.current = 3
    /\ Len(rangeCall.out) = 7

\* C28: for totalPages > 7 and 0 <= currentPage < totalPages the result
\* holds, each once and in increasing order, the pages 0, totalPages - 1,
\* currentPage and those of currentPage - 2 .. currentPage + 2 that lie in
\* 1 .. totalPages - 2; two neighbouring pages are consecutive numbers, and
\* one ellipsis marker stands between two pages exactly where they differ by
\* more than 1, never first, last or doubled; for page 5 of 10 the result is
\* 0, ellipsis, 3, 4, 5, 6, 7, ellipsis, 9.
C28_LongRangeIsWindowed ==
    (rangeCall.done /\ rangeCall.total > 7
        /\ 0 <= rangeCall.current /\ rangeCall.current < rangeCall.total)
    => LET out == rangeCall.out
           n == Len(out)
           current == rangeCall.current
           total == rangeCall.total
           pages == {0, total - 1, current}
                    \cup { p \in (current - 2)..(current + 2) : 1 <= p /\ p <= total - 2 }
       IN  /\ { out[k].page : k \in LinksIn(out) } = pages
           /\ Cardinality(LinksIn(out)) = Cardinality(pages)
           /\ IsPageLink(out[1])
           /\ IsPageLink(out[n])
           /\ \A k \in 1..(n - 1) :
                 IF IsPageLink(out[k]) /\ IsPageLink(out[k + 1])
                 THEN out[k + 1].page = out[k].page + 1
                 ELSE IF IsPageLink(out[k])
                 THEN /\ k + 2 <= n
                      /\ IsPageLink(out[k + 2])
                      /\ out[k + 2].page > out[k].page + 1
                 ELSE IsPageLink(out[k + 1])
           /\ (current = 5 /\ total = 10)
              => out = <<PageLink(0), EllipsisMark, PageLink(3), PageLink(4),
                         PageLink(5), PageLink(6), PageLink(7), EllipsisMark,
                         PageLink(9)>>

\* C28 witness: buildPageRange was called for page 5 of 10 and returned nine
\* entries, two of them ellipsis markers.
C28_Witness ==
    /\ rangeCall.done
    /\ rangeCall.current = 5
    /\ rangeCall.total = 10
    /\ Len(rangeCall.out) = 9
    /\ EllipsesIn(rangeCall.out) = {2, 8}

\* C29: for every total and every current page from 0 on, within the total
\* or beyond it, the range holds at most 7 page links and at most 2 ellipsis
\* markers.
C29_RangeIsBounded ==
    rangeCall.done
    => /\ Cardinality(LinksIn(rangeCall.out)) <= 7
       /\ Cardinality(EllipsesIn(rangeCall.out)) <= 2

\* C29 witness: a call for more than 7 pages returned 7 page links and 2
\* ellipsis markers.
C29_Witness ==
    /\ rangeCall.done
    /\ rangeCall.total > 7
    /\ Cardinality(LinksIn(rangeCall.out)) = 7
    /\ Cardinality(EllipsesIn(rangeCall.out)) = 2


\* C30: the pagination control is hidden whenever the totalPages last taken
\* from a list response is at most 1, and visible whenever it is more than 1,
\* also after later reloads have failed.
C30_PaginationShownIffSeveralPages ==
    pager.visible <=> state.totalPages > 1

\* C30 witness: the control was visible for a result of several pages and is
\* hidden now that a later response reported at most one page.
C30_Witness ==
    /\ focus = "reload"
    /\ ~pager.visible
    /\ pager.total > 1
    /\ state.totalPages <= 1
    /\ display.content \in {"table", "empty"}


\* C31: state.sort is always a column and state.direction is always asc or
\* desc, and every list request carries the two as the pair
\* 'column,direction'.
C31_SortIsAPair ==
    /\ state.sort \in Cols
    /\ state.direction \in {"asc", "desc"}
    /\ \A i \in 1..Len(inflight) :
          /\ Len(inflight[i].sort) = 2
          /\ inflight[i].sort[1] \in Cols
          /\ inflight[i].sort[2] \in {"asc", "desc"}

\* C31 witness: sortBy has switched to another column and then toggled the
\* direction; the request of each call is outstanding.
C31_Witness ==
    /\ focus = "sort"
    /\ state.sort = "type"
    /\ state.direction = "desc"
    /\ Len(inflight) = 2
    /\ inflight[1].sort = <<"type", "asc">>
    /\ inflight[2].sort = <<"type", "desc">>


\* the fields of state that make the query
QueryFields == {"page", "size", "sort", "direction", "status", "type", "q"}

\* the step changes no query field but those of own
ChangesOnly(own) == \A f \in QueryFields \ own : state'[f] = state[f]

\* C32: sortBy changes only sort, direction and page; a status (type) filter
\* change only status (type) and page; a search commit only q and page;
\* goToPage only page; an auto-refresh tick and the handling of an answer
\* change no query field, and the request of the tick carries the page the
\* user is on; size is 20 throughout.
C32_IntentsChangeOwnFields ==
    [][/\ \A col \in Cols : SortBy(col) => ChangesOnly({"sort", "direction", "page"})
       /\ \A v \in StatusOptions : StatusFilterChange(v) => ChangesOnly({"status", "page"})
       /\ \A v \in TypeOptions : TypeFilterChange(v) => ChangesOnly({"type", "page"})
       /\ \A t \in timers : SearchCommit(t) => ChangesOnly({"q", "page"})
       /\ \A p \in -1..MaxPages : GoToPage(p) => ChangesOnly({"page"})
       /\ AutoRefresh
          => /\ ChangesOnly({})
             /\ Len(inflight') > Len(inflight)
                => inflight'[Len(inflight')].page = state.page
       /\ Len(inflight') < Len(inflight) => ChangesOnly({})
       /\ state'.size = PageSize]_vars

\* C32 witness: on the second page the auto-refresh timer has fired; its
\* request, the newest, asks for the second page.
C32_Witness ==
    /\ focus = "paging"
    /\ lastOp.name = "refresh"
    /\ state.page = 1
    /\ inflight # <<>>
    /\ inflight[Len(inflight)].page = 1
    /\ inflight[Len(inflight)].latest


\* C33: clear-filters empties q, status and type, sets page to 0, keeps sort
\* and direction and issues exactly one list request; if a debounce commit
\* was pending at the click, q is still empty after that commit has run, up
\* to the next input event.
C33_ClearFilters ==
    [][/\ ClearFilters
          => /\ state'.q = <<>>
             /\ state'.status = ""
             /\ state'.type = ""
             /\ state'.page = 0
             /\ state'.sort = state.sort
             /\ state'.direction = state.direction
             /\ Len(inflight') = Len(inflight) + 1
       /\ deb'.cleared => state'.q = <<>>]_vars

\* C33 witness: text was typed, clear-filters was clicked while the commit
\* was pending, and the commit has run since: q is empty.
C33_Witness ==
    /\ deb.cleared
    /\ Trim(deb.typed) # <<>>
    /\ timers = {}
    /\ inputValue = <<>>
    /\ state.q = <<>>


\* the entries of the list that renderPagination() last wrote
Rendered == BuildPageRange(pager.page, pager.total)

\* C34: every page link of the visible pagination targets a page p with
\* 0 <= p < state.totalPages.
C34_LinksWithinTotal ==
    pager.visible
    => \A k \in LinksIn(Rendered) :
          0 <= Rendered[k].page /\ Rendered[k].page < state.totalPages

\* C35: in the visible pagination exactly one page link is marked active,
\* the link of the page it was rendered for.
C35_OneActiveLink ==
    pager.visible
    => Cardinality({ k \in LinksIn(Rendered) : Rendered[k].page = pager.page }) = 1


\* C36: the answer to getDevice(id) leaves the form id and fields alone if,
\* since openEditModal(id) was called, the create modal was opened or
\* openEditModal was called for another device: the form belongs to the
\* open that was started last.
C36_FormOfLatestOpen ==
    [][\A i \in 1..Len(calls) :
          \A status \in Statuses :
             (/\ EditAnswered(i, status)
              /\ \/ "device" \in modal /\ form.id = 0
                 \/ \E k \in (i + 1)..Len(calls) : calls[k].op = "getDevice")
             => /\ form'.id = form.id
                /\ form'.fields = form.fields]_vars


\* C37: while a modal is shown no answer to a list request is applied: the
\* table, the totals and the pagination stay as they were when the modal
\* was opened, also for a request that was issued before.
C37_NoRenderUnderModal ==
    [][(modal # {} /\ Len(inflight') < Len(inflight))
       => /\ display'.content = display.content
          /\ state' = state
          /\ pager' = pager]_vars

\* C38: once the auth token has been removed no request is sent: no step
\* that ends without a token issues a list request or another API call.
C38_NoRequestWithoutToken ==
    [][~authed' => /\ Len(inflight') <= Len(inflight)
                   /\ Len(calls') <= Len(calls)]_vars

=============================================================================
